---- MODULE Spec2Model ----
(***************************************************************************)
(* A model of StoryStore (code/lib/preview-api/src/modules/store/          *)
(* StoryStore.ts): the story index, the module loader, the two memoized    *)
(* caches, the initialization gate and the batched loading of CSF files.   *)
(*                                                                         *)
(* One action is one synchronous run of the store's code: a public method  *)
(* up to its return or its first suspension, or the settling of one        *)
(* module load together with the promise callbacks it triggers.            *)
(***************************************************************************)
EXTENDS Integers, Sequences, FiniteSets, TLC

\* ------------------------------------------------------------------ bounds
MaxTasks == 3          \* asynchronous calls issued in one behaviour
FewTasks == 2          \* the same, where two overlapping calls are enough
MaxPA == 2             \* setProjectAnnotations calls in one behaviour
MaxGen == 2            \* computations of one module record in one behaviour
\* The source sets 1000 and 10000; the LRU logic does not depend on the
\* number, and a small capacity lets eviction happen within the bounds.
CSF_CACHE_SIZE == 2
STORY_CACHE_SIZE == 3
EXTRACT_BATCH_SIZE == 20

\* ------------------------------------------------------------------ inputs
Loaders == {"f1", "f2"}
NoFn == "none"
BatchSizes == {1, 2}
PAContents == {"x", "y"}
Outcomes == {"ok", "bad", "rej"}

Entry(id, type, importPath, title, storiesImports) ==
  [id |-> id, type |-> type, importPath |-> importPath, title |-> title,
   storiesImports |-> storiesImports]

\* Two story indexes; entry order is the key order of the entries object.
IndexA ==
  << Entry("a", "story", "p1", "T1", <<>>),
     Entry("b", "story", "p1", "T1", <<>>),
     Entry("c", "story", "p2", "T2", <<>>) >>
IndexB ==
  << Entry("c", "story", "p2", "T2", <<>>),
     Entry("a", "story", "p2", "T2", <<>>),
     Entry("d", "docs", "p1", "T1", <<"p2">>) >>
\* An index whose docs entry references two story modules.
IndexDocs ==
  << Entry("a", "story", "p1", "T1", <<>>),
     Entry("c", "story", "p2", "T2", <<>>),
     Entry("d", "docs", "p3", "T1", <<"p1", "p2">>) >>
\* IndexA after story b has moved from the module p1 to the module p2; it is
\* used for loading only, the modules prepared from are those of StoriesOf.
IndexMoved ==
  << Entry("a", "story", "p1", "T1", <<>>),
     Entry("b", "story", "p2", "T2", <<>>),
     Entry("c", "story", "p2", "T2", <<>>) >>
\* IndexA before the story of the module p2 was added (b is not written yet).
IndexSmall == << Entry("a", "story", "p1", "T1", <<>>) >>
Indexes == {IndexA, IndexB}
NoIndex == <<>>

\* The ids callers ask for: two that the indexes hold and one they do not.
CallIds == {"a", "c", "z"}
StoryIds == {"a", "b", "c", "d"}

\* The story exports of the module behind each import path.
StoriesOf(path) == IF path = "p1" THEN {"a", "b"} ELSE IF path = "p2" THEN {"a", "c"} ELSE {}
\* parameters.docsOnly of the prepared story
DocsOnly(id) == id = "b"

Ok(v) == [kind |-> "ok", val |-> v]
\* What a call that returns no value, a promise or null hands back.
Void == [is |-> "undefined"]
APromise == [is |-> "promise"]
Null == [is |-> "null"]
Err(e, by) == [kind |-> "error", error |-> e, by |-> by]
NotInitialized(by) == Err("NotInitialized", by)

\* ------------------------------------------------------------------ state
VARIABLES
  storyIndex,          \* this.storyIndex: [set, entries]
  importFn,            \* this.importFn, NoFn while undefined
  initialized,         \* initializationPromise is resolved
  projectAnnotations,  \* this.projectAnnotations: [id, content], id 0 while undefined
  globals,             \* this.globals, "unset" while undefined
  args,                \* this.args: story id -> current arguments
  hooks,               \* this.hooks: story id -> hooks context, 0 while undefined
  cachedCSFFiles,      \* this.cachedCSFFiles: [set, files]
  csfCache,            \* the memo of processCSFFileWithCache, least recently used first
  processCount,        \* how often processCSFFile ran to completion, per argument triple
  storyCache,          \* the memo of prepareStoryWithCache, least recently used first
  tasks,               \* the asynchronous calls issued so far
  lastCall             \* the latest synchronous call and what it returned or threw

vars == << storyIndex, importFn, initialized, projectAnnotations, globals, args, hooks,
           cachedCSFFiles, csfCache, processCount, storyCache, tasks, lastCall >>

storeVars == << storyIndex, importFn, initialized, projectAnnotations, globals, args, hooks,
                cachedCSFFiles, csfCache, processCount, storyCache >>

\* ------------------------------------------------------------------ index store
NoEntry == Entry("none", "none", "none", "none", <<>>)

HasEntry(entries, id) == \E i \in 1..Len(entries) : entries[i].id = id

\* StoryIndexStore.storyIdToEntry: the entry of the id, NotFound when absent.
StoryIdToEntry(entries, id) ==
  IF HasEntry(entries, id)
    THEN entries[CHOOSE i \in 1..Len(entries) : entries[i].id = id]
    ELSE NoEntry

\* StoryIndexStore.importPathToEntry: the first entry with the import path.
ImportPathToEntry(entries, path) ==
  IF \E i \in 1..Len(entries) : entries[i].importPath = path
    THEN entries[CHOOSE i \in 1..Len(entries) :
                   /\ entries[i].importPath = path
                   /\ \A j \in 1..(i-1) : entries[j].importPath # path]
    ELSE NoEntry

\* ------------------------------------------------------------------ memoizerific
MemoHas(cache, key) == \E i \in 1..Len(cache) : cache[i].key = key

MemoIndex(cache, key) == CHOOSE i \in 1..Len(cache) : cache[i].key = key

MemoGet(cache, key) == cache[MemoIndex(cache, key)].val

\* A hit moves the entry to the most recently used end.
MemoTouch(cache, key) ==
  LET i == MemoIndex(cache, key)
  IN  SubSeq(cache, 1, i-1) \o SubSeq(cache, i+1, Len(cache)) \o << cache[i] >>

\* A miss appends the new result and drops the least recently used beyond the limit.
MemoStore(cache, key, val, limit) ==
  LET c == Append(cache, [key |-> key, val |-> val])
  IN  IF Len(c) > limit THEN Tail(c) ELSE c

\* ------------------------------------------------------------------ csf
CsfKeys == Loaders \X {"p1", "p2"} \X {"T1", "T2"}

NoCsf == [fn |-> "none", importPath |-> "none", title |-> "none", gen |-> 0]

\* processCSFFile(moduleExports, importPath, title): a new module record. The
\* exports are named by the loader and the path they were imported from; gen
\* tells the records of one triple apart (object identity).
ProcessCSFFile(key, gen) ==
  [fn |-> key[1], importPath |-> key[2], title |-> key[3], gen |-> gen]

\* csfFile.stories[storyId] is set
HasStory(csf, storyId) == storyId \in StoriesOf(csf.importPath)

ProcessCSFFileUncached(cache, count, key) ==
  [cache |-> cache, count |-> [count EXCEPT ![key] = @ + 1],
   val |-> ProcessCSFFile(key, count[key] + 1)]

\* processCSFFileWithCache(exports, importPath, title):
\* [cache, count, val] after the call.
ProcessCSFFileWithCache(cache, count, key) ==
  IF MemoHas(cache, key)
    THEN [cache |-> MemoTouch(cache, key), count |-> count, val |-> MemoGet(cache, key)]
    ELSE LET val == ProcessCSFFile(key, count[key] + 1)
         IN  [cache |-> MemoStore(cache, key, val, CSF_CACHE_SIZE),
              count |-> [count EXCEPT ![key] = @ + 1],
              val |-> val]

\* prepareStory(storyAnnotations, componentAnnotations, projectAnnotations)
PrepareStory(csf, storyId, pa) ==
  [id |-> storyId, csf |-> csf, paId |-> pa.id, pa |-> pa.content,
   docsOnly |-> DocsOnly(storyId)]

StoryKeyNoProject(csf, storyId, pa) == << csf, storyId, 0 >>

\* The arguments prepareStoryWithCache is keyed by: csfFile.stories[storyId],
\* csfFile.meta and this.projectAnnotations, each by identity.
StoryKey(csf, storyId, pa) == << csf, storyId, pa.id >>

\* ------------------------------------------------------------------ args store
\* ArgsStore.setInitial(story): seeds the arguments only if the id has none yet.
SetInitial(a, id) == IF a[id] = "unset" THEN [a EXCEPT ![id] = "init"] ELSE a

\* ------------------------------------------------------------------ storyFromCSFFile
SeedArgsAnew(a, story) == [a EXCEPT ![story.id] = "init"]

\* this.args.setInitial(story)
SeedArgs(a, story) == SetInitial(a, story.id)

\* new HooksContext(): the n-th context made for the story id.
NewHooksContext(h, id) == h[id] + 1

HooksForAnew(h, id) == [h EXCEPT ![id] = NewHooksContext(h, id)]

\* this.hooks[story.id] = this.hooks[story.id] || new HooksContext()
HooksFor(h, id) == IF h[id] # 0 THEN h ELSE [h EXCEPT ![id] = NewHooksContext(h, id)]

\* storyFromCSFFile({storyId, csfFile}) run on the store fields st = [pa, sc, args,
\* hooks]; defined is FALSE for an undefined csfFile. The fields after the call
\* and what it returned or threw.
StoryFromCSFFile(st, storyId, csf, defined) ==
  IF st.pa.id = 0 THEN [st |-> st, ret |-> NotInitialized("storyFromCSFFile")]
  ELSE IF ~defined THEN [st |-> st, ret |-> Err("TypeError", "storyFromCSFFile")]
  ELSE IF ~HasStory(csf, storyId) THEN [st |-> st, ret |-> Err("DidntFind", "storyFromCSFFile")]
  ELSE
    LET key == StoryKey(csf, storyId, st.pa)
        hit == MemoHas(st.sc, key)
        story == IF hit THEN MemoGet(st.sc, key) ELSE PrepareStory(csf, storyId, st.pa)
        sc == IF hit THEN MemoTouch(st.sc, key)
                     ELSE MemoStore(st.sc, key, story, STORY_CACHE_SIZE)
    IN  [st |-> [pa |-> st.pa,
                 sc |-> sc,
                 args |-> SeedArgs(st.args, story),
                 hooks |-> HooksFor(st.hooks, story.id)],
         ret |-> Ok(story)]

\* The store fields storyFromCSFFile reads and writes.
StoreFields == [pa |-> projectAnnotations, sc |-> storyCache, args |-> args, hooks |-> hooks]

\* ------------------------------------------------------------------ tasks
Pending == [kind |-> "pending"]

\* One asynchronous call. slots are the module loads it has issued, in order;
\* caching tells that the call is inside cacheAllCSFFiles.
Task(op, pc, storyId, newFn, newIndex, batchSize) ==
  [op |-> op, pc |-> pc, early |-> ~initialized, storyId |-> storyId,
   newFn |-> newFn, newIndex |-> newIndex, batchSize |-> batchSize,
   caching |-> FALSE, remaining |-> <<>>, slots |-> <<>>, batchNo |-> 0,
   result |-> Pending]

GateOps == {"loadStory", "storyIdToEntry", "onStoriesChanged", "cacheAllCSFFiles"}
CacheOps == {"cacheAllCSFFiles", "onStoriesChanged", "initialize"}

\* The [importPath, storyId] pairs of loadAllCSFFiles, one per index entry.
ImportPaths(entries) ==
  [i \in 1..Len(entries) |-> [importPath |-> entries[i].importPath, storyId |-> entries[i].id]]

Take(seq, n) == SubSeq(seq, 1, IF n < Len(seq) THEN n ELSE Len(seq))
Drop(seq, n) == SubSeq(seq, (IF n < Len(seq) THEN n ELSE Len(seq)) + 1, Len(seq))

\* loadCSFFileByStoryId(storyId) up to importFn(importPath): the load it issues.
\* key is the import path the caller files the result under.
Slot(key, storyId, entries, fn, batchNo) ==
  LET e == StoryIdToEntry(entries, storyId)
  IN  [batch |-> batchNo, key |-> key, storyId |-> storyId, importPath |-> e.importPath,
       title |-> e.title, fn |-> fn, st |-> "pending", csf |-> NoCsf]

\* remainingImportPaths.slice(0, batchSize).map(...): the loads issued, and the
\* error of the first pair whose story id the index does not hold (the map stops there).
IssueBatch(pairs, entries, fn, batchNo) ==
  LET bad == { i \in 1..Len(pairs) : ~HasEntry(entries, pairs[i].storyId) }
      n == IF bad = {} THEN Len(pairs)
           ELSE (CHOOSE i \in bad : \A j \in bad : i <= j) - 1
  IN  [slots |-> [i \in 1..n |-> Slot(pairs[i].importPath, pairs[i].storyId, entries, fn, batchNo)],
       err |-> IF bad = {} THEN "none" ELSE "NotFound"]

AssignFileInFront(acc, key, csf) ==
  IF \E i \in 1..Len(acc) : acc[i].importPath = key
    THEN [i \in 1..Len(acc) |->
            IF acc[i].importPath = key THEN [importPath |-> key, csfFile |-> csf] ELSE acc[i]]
    ELSE << [importPath |-> key, csfFile |-> csf] >> \o acc

\* acc[importPath] = csfFile: a new key goes last, a known key keeps its place.
AssignFile(acc, key, csf) ==
  IF \E i \in 1..Len(acc) : acc[i].importPath = key
    THEN [i \in 1..Len(acc) |->
            IF acc[i].importPath = key THEN [importPath |-> key, csfFile |-> csf] ELSE acc[i]]
    ELSE Append(acc, [importPath |-> key, csfFile |-> csf])

RECURSIVE ReduceFiles(_, _)
\* list.reduce((acc, {importPath, csfFile}) => { acc[importPath] = csfFile }, {}):
\* an object keeps its keys in the order of their first assignment.
ReduceFiles(list, acc) ==
  IF list = <<>> THEN acc
  ELSE ReduceFiles(Tail(list), AssignFile(acc, Head(list).key, Head(list).csf))

BatchNeverRejected(slots, batchNo) == FALSE

\* SynchronousPromise.all(csfFilePromiseList) is rejected: as soon as one load of
\* the batch is.
BatchRejected(slots, batchNo) ==
  \E i \in 1..Len(slots) : slots[i].batch = batchNo /\ slots[i].st = "failed"

BatchSomeResolved(slots, batchNo) ==
  \E i \in 1..Len(slots) : slots[i].batch = batchNo /\ slots[i].st = "ok"

\* SynchronousPromise.all(csfFilePromiseList) is fulfilled: every load of the batch is.
BatchResolved(slots, batchNo) ==
  \A i \in 1..Len(slots) : slots[i].batch = batchNo => slots[i].st = "ok"

\* loadInBatches(remainingImportPaths) of task t: resolves at once on an empty
\* list, else issues the loads of the next batch.
LoadInBatches(t, entries, fn) ==
  IF t.remaining = <<>>
    THEN [t EXCEPT !.pc = "done", !.result = Ok(ReduceFiles(t.slots, <<>>))]
    ELSE LET b == IssueBatch(Take(t.remaining, t.batchSize), entries, fn, t.batchNo + 1)
         IN  IF b.err # "none"
               THEN [t EXCEPT !.pc = "done", !.result = Err(b.err, "loadCSFFileByStoryId"),
                              !.slots = @ \o b.slots, !.batchNo = @ + 1]
               ELSE [t EXCEPT !.pc = "loading", !.slots = @ \o b.slots, !.batchNo = @ + 1,
                              !.remaining = Drop(@, t.batchSize)]

\* loadAllCSFFiles({batchSize}) of task t.
LoadAllCSFFiles(t, indexSet, entries, fn) ==
  IF ~indexSet
    THEN [t EXCEPT !.pc = "done", !.result = NotInitialized("loadAllCSFFiles")]
    ELSE LoadInBatches([t EXCEPT !.remaining = ImportPaths(entries)], entries, fn)

\* loadCSFFileByStoryId(storyId) as the only load of task t.
LoadCSFFileByStoryId(t, indexSet, entries, fn) ==
  IF ~indexSet \/ fn = NoFn
    THEN [t EXCEPT !.pc = "done", !.result = NotInitialized("loadCSFFileByStoryId")]
  ELSE IF ~HasEntry(entries, t.storyId)
    THEN [t EXCEPT !.pc = "done", !.result = Err("NotFound", "loadCSFFileByStoryId")]
  ELSE [t EXCEPT !.pc = "loading", !.batchNo = 1,
                 !.slots = << Slot(StoryIdToEntry(entries, t.storyId).importPath,
                                   t.storyId, entries, fn, 1) >>]

\* cacheAllCSFFiles stores the mapping a finished materialization produced.
Materialized(old, new) ==
  old.pc # "done" /\ new.pc = "done" /\ new.caching /\ new.result.kind = "ok"

InFlight(t) == Cardinality({ i \in 1..Len(t.slots) : t.slots[i].st = "pending" })

\* ------------------------------------------------------------------ initial state
\* The store after its constructor.
Init ==
  /\ storyIndex = [set |-> FALSE, entries |-> NoIndex]
  /\ importFn = NoFn
  /\ initialized = FALSE
  /\ projectAnnotations = [id |-> 0, content |-> "none"]
  /\ globals = "unset"
  /\ args = [id \in StoryIds |-> "unset"]
  /\ hooks = [id \in StoryIds |-> 0]
  /\ cachedCSFFiles = [set |-> FALSE, files |-> <<>>]
  /\ csfCache = <<>>
  /\ processCount = [k \in CsfKeys |-> 0]
  /\ storyCache = <<>>
  /\ tasks = <<>>
  /\ lastCall = [op |-> "constructor", ret |-> Ok(Void)]

\* ------------------------------------------------------------------ synchronous calls
storyFields == << projectAnnotations, storyCache, args, hooks >>

\* setProjectAnnotations(projectAnnotations): normalizeProjectAnnotations makes a
\* new object on every call.
SetProjectAnnotations(c) ==
  /\ projectAnnotations.id < MaxPA
  /\ projectAnnotations' = [id |-> projectAnnotations.id + 1, content |-> c]
  /\ globals' = c
  /\ lastCall' = [op |-> "setProjectAnnotations", ret |-> Ok(Void)]
  /\ UNCHANGED << storyIndex, importFn, initialized, args, hooks, cachedCSFFiles,
                  csfCache, processCount, storyCache, tasks >>

\* ArgsStore.update(storyId, argsUpdate), called by the renderer.
UpdateArgs(id) ==
  /\ args[id] = "init"
  /\ args' = [args EXCEPT ![id] = "upd"]
  /\ lastCall' = [op |-> "updateArgs", ret |-> Ok(Void)]
  /\ UNCHANGED << storyIndex, importFn, initialized, projectAnnotations, globals, hooks,
                  cachedCSFFiles, csfCache, processCount, storyCache, tasks >>

\* The gate the awaiting operations pass: this.initializationPromise is resolved.
GateOpenAlways == TRUE
GateOpen == initialized

\* cacheAllCSFFiles() from the point its initializationPromise.then callback runs.
CacheAllCSFFiles(t, indexSet, entries, fn) ==
  LoadAllCSFFiles([t EXCEPT !.batchSize = EXTRACT_BATCH_SIZE, !.caching = TRUE],
                  indexSet, entries, fn)

CachedAfterClearing(cached, old, new) ==
  IF Materialized(old, new) THEN [set |-> TRUE, files |-> new.result.val]
  ELSE IF old.pc # "done" /\ new.pc = "done" /\ new.caching
    THEN [set |-> FALSE, files |-> <<>>]
  ELSE cached

\* The cachedCSFFiles after a step that took task old to new: cacheAllCSFFiles
\* assigns it in the then-callback of loadAllCSFFiles, which a rejection skips.
CachedAfter(cached, old, new) ==
  IF Materialized(old, new) THEN [set |-> TRUE, files |-> new.result.val] ELSE cached

RECURSIVE CachedAfterAll(_, _, _, _)
CachedAfterAll(cached, olds, news, i) ==
  IF i > Len(olds) THEN cached
  ELSE CachedAfterAll(CachedAfter(cached, olds[i], news[i]), olds, news, i + 1)

ResolveAnew(was) == ~was

\* this.resolveInitializationPromise(): a promise that is resolved stays resolved.
ResolveInitializationPromise(was) == TRUE

\* initialize({storyIndex, importFn, cache}): resolving the gate runs the waiting
\* cacheAllCSFFiles callbacks at once; the awaiting calls resume in later steps.
Initialize(index, fn, cache) ==
  LET waiting(t) == t.op = "cacheAllCSFFiles" /\ t.pc = "gate"
      resumed == [i \in 1..Len(tasks) |->
                    IF waiting(tasks[i]) THEN CacheAllCSFFiles(tasks[i], TRUE, index, fn)
                    ELSE tasks[i]]
      own == CacheAllCSFFiles(Task("initialize", "loading", "none", NoFn, NoIndex, 0), TRUE, index, fn)
      cached1 == CachedAfterAll(cachedCSFFiles, tasks, resumed, 1)
  IN  /\ cache => Len(tasks) < MaxTasks
      /\ storyIndex' = [set |-> TRUE, entries |-> index]
      /\ importFn' = fn
      /\ initialized' = ResolveInitializationPromise(initialized)
      /\ tasks' = IF cache THEN Append(resumed, own) ELSE resumed
      /\ cachedCSFFiles' =
           IF cache
             THEN CachedAfter(cached1, Task("initialize", "loading", "none", NoFn, NoIndex, 0),
                              own)
             ELSE cached1
      /\ lastCall' = [op |-> "initialize", ret |-> Ok(APromise)]
      /\ UNCHANGED << projectAnnotations, globals, args, hooks, csfCache, processCount,
                      storyCache >>

\* cacheAllCSFFiles() called directly.
CallCacheAllCSFFiles ==
  LET t0 == Task("cacheAllCSFFiles", "gate", "none", NoFn, NoIndex, 0)
      t1 == IF GateOpen THEN CacheAllCSFFiles(t0, storyIndex.set, storyIndex.entries, importFn) ELSE t0
  IN  /\ Len(tasks) < MaxTasks
      /\ tasks' = Append(tasks, t1)
      /\ cachedCSFFiles' = CachedAfter(cachedCSFFiles, t0, t1)
      /\ UNCHANGED << storyIndex, importFn, initialized, projectAnnotations, globals, args,
                      hooks, csfCache, processCount, storyCache, lastCall >>

\* loadAllCSFFiles({batchSize}) called directly: it throws before it issues a
\* load when the index is not set.
CallLoadAllCSFFiles(b) ==
  LET t == LoadAllCSFFiles(Task("loadAllCSFFiles", "loading", "none", NoFn, NoIndex, b),
                           storyIndex.set, storyIndex.entries, importFn)
  IN  IF t.pc = "done" /\ t.result.kind = "error" /\ t.slots = <<>>
        THEN /\ lastCall' = [op |-> "loadAllCSFFiles", ret |-> t.result]
             /\ UNCHANGED << storeVars, tasks >>
        ELSE /\ Len(tasks) < MaxTasks
             /\ tasks' = Append(tasks, t)
             /\ UNCHANGED << storeVars, lastCall >>

\* loadCSFFileByStoryId(storyId) called directly: it throws before it issues a
\* load when the store is not initialized or the index does not hold the id.
CallLoadCSFFileByStoryId(id) ==
  LET t == LoadCSFFileByStoryId(Task("loadCSFFileByStoryId", "loading", id, NoFn, NoIndex, 1),
                                storyIndex.set, storyIndex.entries, importFn)
  IN  IF t.pc = "done"
        THEN /\ lastCall' = [op |-> "loadCSFFileByStoryId", ret |-> t.result]
             /\ UNCHANGED << storeVars, tasks >>
        ELSE /\ Len(tasks) < MaxTasks
             /\ tasks' = Append(tasks, t)
             /\ UNCHANGED << storeVars, lastCall >>

\* loadStory, storyIdToEntry and onStoriesChanged up to their
\* await this.initializationPromise.
IssueLoadStory(id) ==
  /\ Len(tasks) < MaxTasks
  /\ tasks' = Append(tasks, Task("loadStory", "gate", id, NoFn, NoIndex, 1))
  /\ UNCHANGED << storeVars, lastCall >>

IssueStoryIdToEntry(id) ==
  /\ Len(tasks) < MaxTasks
  /\ tasks' = Append(tasks, Task("storyIdToEntry", "gate", id, NoFn, NoIndex, 0))
  /\ UNCHANGED << storeVars, lastCall >>

IssueOnStoriesChanged(fn, index) ==
  /\ Len(tasks) < MaxTasks
  /\ tasks' = Append(tasks, Task("onStoriesChanged", "gate", "none", fn, index, 0))
  /\ UNCHANGED << storeVars, lastCall >>

\* ------------------------------------------------------------------ resuming at the gate
RecacheIfSupplied(t, cachedSet) ==
  cachedSet /\ (t.newFn # NoFn \/ t.newIndex # NoIndex)

\* if (this.cachedCSFFiles) in onStoriesChanged
Recache(t, cachedSet) == cachedSet

ImportFnAssigned(t, fn) == t.newFn

\* if (importFn) this.importFn = importFn
ImportFnAfter(t, fn) == IF t.newFn # NoFn THEN t.newFn ELSE fn

\* onStoriesChanged({importFn, storyIndex}) after its await.
OnStoriesChanged(t, indexSet, entries, fn, cachedSet) ==
  LET fn1 == ImportFnAfter(t, fn)
      entries1 == IF t.newIndex # NoIndex THEN t.newIndex ELSE entries
  IN  IF t.newIndex # NoIndex /\ ~indexSet
        THEN [t EXCEPT !.pc = "done", !.result = Err("TypeError", "onStoriesChanged")]
      ELSE IF Recache(t, cachedSet) THEN CacheAllCSFFiles(t, indexSet, entries1, fn1)
      ELSE [t EXCEPT !.pc = "done", !.result = Ok(<<>>)]

\* storyIdToEntry(storyId) after its await.
StoryIdToEntryTask(t, indexSet, entries) ==
  IF ~indexSet THEN [t EXCEPT !.pc = "done", !.result = Err("TypeError", "storyIdToEntry")]
  ELSE IF ~HasEntry(entries, t.storyId)
    THEN [t EXCEPT !.pc = "done", !.result = Err("NotFound", "storyIdToEntry")]
  ELSE [t EXCEPT !.pc = "done", !.result = Ok(StoryIdToEntry(entries, t.storyId))]

\* The continuation of an await this.initializationPromise.
Resume(i) ==
  LET t == tasks[i]
      t1 == IF t.op = "loadStory"
              THEN LoadCSFFileByStoryId(t, storyIndex.set, storyIndex.entries, importFn)
            ELSE IF t.op = "storyIdToEntry"
              THEN StoryIdToEntryTask(t, storyIndex.set, storyIndex.entries)
            ELSE OnStoriesChanged(t, storyIndex.set, storyIndex.entries, importFn,
                                  cachedCSFFiles.set)
  IN  /\ t.pc = "gate"
      /\ t.op \in {"loadStory", "storyIdToEntry", "onStoriesChanged"}
      /\ GateOpen
      /\ tasks' = [tasks EXCEPT ![i] = t1]
      /\ importFn' = IF t.op = "onStoriesChanged" THEN ImportFnAfter(t, importFn) ELSE importFn
      /\ storyIndex' = IF t.op = "onStoriesChanged" /\ t.newIndex # NoIndex /\ storyIndex.set
                         THEN [storyIndex EXCEPT !.entries = t.newIndex]
                         ELSE storyIndex
      /\ cachedCSFFiles' = CachedAfter(cachedCSFFiles, t, t1)
      /\ UNCHANGED << initialized, projectAnnotations, globals, args, hooks, csfCache,
                      processCount, storyCache, lastCall >>

\* ------------------------------------------------------------------ a load settles
SlotError(o) == IF o = "bad" THEN "Malformed" ELSE "LoadRejected"

\* The promise of one importFn(importPath) call settles: fulfilled with exports
\* that processCSFFile accepts (ok) or throws on (bad), or rejected (rej). The
\* step runs processCSFFileWithCache and every callback that the settling
\* triggers: the batch's SynchronousPromise.all, the next loadInBatches, the
\* final reduce and the caller's continuation.
LoadSettles(i, j, o) ==
  LET t == tasks[i]
      s == t.slots[j]
      key == << s.fn, s.importPath, s.title >>
      p == IF o = "ok" THEN ProcessCSFFileWithCache(csfCache, processCount, key)
           ELSE [cache |-> csfCache, count |-> processCount, val |-> NoCsf]
      s1 == [s EXCEPT !.st = IF o = "ok" THEN "ok" ELSE "failed", !.csf = p.val]
      t1 == [t EXCEPT !.slots[j] = s1]
      single == t.op \in {"loadStory", "loadCSFFileByStoryId"}
      sf == StoryFromCSFFile(StoreFields, t.storyId, p.val, TRUE)
      t2 == IF t.pc # "loading" THEN t1
            ELSE IF BatchRejected(t1.slots, t1.batchNo)
              THEN [t1 EXCEPT !.pc = "done", !.result = Err(SlotError(o), "loadCSFFileByStoryId")]
            ELSE IF o # "ok" THEN t1
            ELSE IF t.op = "loadStory" THEN [t1 EXCEPT !.pc = "done", !.result = sf.ret]
            ELSE IF t.op = "loadCSFFileByStoryId"
              THEN [t1 EXCEPT !.pc = "done", !.result = Ok(p.val)]
            ELSE IF BatchResolved(t1.slots, t1.batchNo)
              THEN LoadInBatches(t1, storyIndex.entries, importFn)
            ELSE t1
      prepared == t.pc = "loading" /\ o = "ok" /\ t.op = "loadStory"
  IN  /\ t.op # "loadEntry"
      /\ s.st = "pending"
      /\ o = "ok" => (MemoHas(csfCache, key) \/ processCount[key] < MaxGen)
      /\ tasks' = [tasks EXCEPT ![i] = t2]
      /\ csfCache' = p.cache
      /\ processCount' = p.count
      /\ cachedCSFFiles' = CachedAfter(cachedCSFFiles, t, t2)
      /\ storyCache' = IF prepared THEN sf.st.sc ELSE storyCache
      /\ args' = IF prepared THEN sf.st.args ELSE args
      /\ hooks' = IF prepared THEN sf.st.hooks ELSE hooks
      /\ UNCHANGED << storyIndex, importFn, initialized, projectAnnotations, globals,
                      lastCall >>

\* ------------------------------------------------------------------ loadEntry
\* loadEntry(id) up to the await this.initializationPromise of its storyIdToEntry.
IssueLoadEntry(id) ==
  /\ Len(tasks) < MaxTasks
  /\ tasks' = Append(tasks, Task("loadEntry", "gate", id, NoFn, NoIndex, 0))
  /\ UNCHANGED << storeVars, lastCall >>

\* The continuation of storyIdToEntry inside loadEntry: the entry is held in
\* result until loadEntry's own continuation runs.
ResumeLoadEntry(i) ==
  LET t == tasks[i]
      e == StoryIdToEntryTask(t, storyIndex.set, storyIndex.entries)
  IN  /\ t.op = "loadEntry"
      /\ t.pc = "gate"
      /\ GateOpen
      /\ tasks' = [tasks EXCEPT ![i] = IF e.result.kind = "ok" THEN [e EXCEPT !.pc = "entry"]
                                       ELSE e]
      /\ UNCHANGED << storeVars, lastCall >>

\* importFn(entry.importPath): the load of the entry's own module.
OwnSlot(e, fn) ==
  [batch |-> 1, key |-> "entryExports", storyId |-> e.id, importPath |-> e.importPath,
   title |-> e.title, fn |-> fn, st |-> "pending", csf |-> NoCsf]

LoadEntryOwnOnly(t, indexSet, entries, fn) ==
  IF ~indexSet \/ fn = NoFn
    THEN [t EXCEPT !.pc = "done", !.result = NotInitialized("loadEntry")]
    ELSE [t EXCEPT !.pc = "loading", !.batchNo = 1, !.result = Pending,
                   !.slots = << OwnSlot(t.result.val, fn) >>]

\* loadEntry(id) after const entry = await this.storyIdToEntry(id): the array
\* handed to Promise.all holds the load of the entry's module and, for a docs
\* entry, loadCSFFileByStoryId of the first entry of every storiesImports path.
LoadEntry(t, indexSet, entries, fn) ==
  IF ~indexSet \/ fn = NoFn
    THEN [t EXCEPT !.pc = "done", !.result = NotInitialized("loadEntry")]
    ELSE LET e == t.result.val
             storyImports == IF e.type = "docs" THEN e.storiesImports ELSE <<>>
             first == [k \in 1..Len(storyImports) |-> ImportPathToEntry(entries, storyImports[k])]
             bad == { k \in 1..Len(first) : first[k] = NoEntry }
             n == IF bad = {} THEN Len(first)
                  ELSE (CHOOSE k \in bad : \A l \in bad : k <= l) - 1
             deps == [k \in 1..n |-> Slot(storyImports[k], first[k].id, entries, fn, 1)]
         IN  IF bad # {}
               THEN [t EXCEPT !.pc = "done", !.result = Err("NotFound", "importPathToEntry"),
                              !.batchNo = 1, !.slots = << OwnSlot(e, fn) >> \o deps]
               ELSE [t EXCEPT !.pc = "loading", !.batchNo = 1, !.result = Pending,
                              !.slots = << OwnSlot(e, fn) >> \o deps]

\* The continuation of loadEntry after its await of storyIdToEntry.
LoadEntryContinues(i) ==
  /\ tasks[i].op = "loadEntry"
  /\ tasks[i].pc = "entry"
  /\ tasks' = [tasks EXCEPT ![i] = LoadEntry(tasks[i], storyIndex.set, storyIndex.entries,
                                             importFn)]
  /\ UNCHANGED << storeVars, lastCall >>

\* One load of a loadEntry call settles; Promise.all rejects with the first
\* failure and resolves with [entryExports, ...csfFiles] when every load has.
EntryLoadSettles(i, j, o) ==
  LET t == tasks[i]
      s == t.slots[j]
      key == << s.fn, s.importPath, s.title >>
      p == IF o = "ok" /\ j > 1 THEN ProcessCSFFileWithCache(csfCache, processCount, key)
           ELSE [cache |-> csfCache, count |-> processCount, val |-> NoCsf]
      s1 == [s EXCEPT !.st = IF o = "ok" THEN "ok" ELSE "failed", !.csf = p.val]
      t1 == [t EXCEPT !.slots[j] = s1]
      t2 == IF t.pc # "loading" THEN t1
            ELSE IF BatchRejected(t1.slots, 1)
              THEN [t1 EXCEPT !.pc = "done",
                              !.result = Err(SlotError(o), IF j = 1 THEN "importFn"
                                                           ELSE "loadCSFFileByStoryId")]
            ELSE IF BatchResolved(t1.slots, 1)
              THEN [t1 EXCEPT !.pc = "done",
                              !.result = Ok([entryExports |-> t1.slots[1].importPath,
                                             csfFiles |-> [k \in 1..(Len(t1.slots) - 1) |->
                                                             t1.slots[k + 1].csf]])]
            ELSE t1
  IN  /\ t.op = "loadEntry"
      /\ s.st = "pending"
      /\ j = 1 => o # "bad"
      /\ (o = "ok" /\ j > 1) => (MemoHas(csfCache, key) \/ processCount[key] < MaxGen)
      /\ tasks' = [tasks EXCEPT ![i] = t2]
      /\ csfCache' = p.cache
      /\ processCount' = p.count
      /\ UNCHANGED << storyIndex, importFn, initialized, projectAnnotations, globals, args,
                      hooks, cachedCSFFiles, storyCache, lastCall >>

\* ------------------------------------------------------------------ extraction
HasFile(files, path) == \E i \in 1..Len(files) : files[i].importPath = path

\* cachedCSFFiles[importPath]
FileOf(files, path) ==
  IF HasFile(files, path)
    THEN files[CHOOSE i \in 1..Len(files) : files[i].importPath = path].csfFile
    ELSE NoCsf

KeepsEvery(story, dropDocsOnly) == TRUE

\* extract keeps the story unless !options.includeDocsOnly && story.parameters.docsOnly
Keeps(story, dropDocsOnly) == ~(dropDocsOnly /\ story.docsOnly)

RECURSIVE PrepareAll(_, _, _, _)
\* storyFromCSFFile over items = [id, csf, defined] in order, stopping at the
\* first throw; dropDocsOnly leaves the docs-only stories out of the result.
PrepareAll(items, st, acc, dropDocsOnly) ==
  IF items = <<>> THEN [st |-> st, ret |-> Ok(acc)]
  ELSE LET it == Head(items)
           r == StoryFromCSFFile(st, it.id, it.csf, it.defined)
       IN  IF r.ret.kind = "error" THEN r
           ELSE PrepareAll(Tail(items), r.st,
                           IF Keeps(r.ret.val, dropDocsOnly) THEN Append(acc, it.id)
                           ELSE acc,
                           dropDocsOnly)

IsStoryEntry(e) == e.type # "docs"

\* The reduce of extract over the index entries: the entries of type docs are
\* skipped, the others prepared from cachedCSFFiles[importPath].
ExtractStories(entries, cached, st, includeDocsOnly) ==
  LET stories == SelectSeq(entries, IsStoryEntry)
      items == [i \in 1..Len(stories) |->
                  [id |-> stories[i].id,
                   csf |-> FileOf(cached.files, stories[i].importPath),
                   defined |-> HasFile(cached.files, stories[i].importPath)]]
  IN  PrepareAll(items, st, <<>>, ~includeDocsOnly)

ExtractCacheFirst(indexSet, entries, cached, st, includeDocsOnly) ==
  IF ~cached.set THEN [st |-> st, ret |-> Err("CacheNotReady", "extract")]
  ELSE IF ~indexSet THEN [st |-> st, ret |-> NotInitialized("extract")]
  ELSE ExtractStories(entries, cached, st, includeDocsOnly)

ExtractUncached(indexSet, entries, cached, st, includeDocsOnly) ==
  IF ~indexSet THEN [st |-> st, ret |-> NotInitialized("extract")]
  ELSE ExtractStories(entries, cached, st, includeDocsOnly)

\* extract(options) of the store fields st.
Extract(indexSet, entries, cached, st, includeDocsOnly) ==
  IF ~indexSet THEN [st |-> st, ret |-> NotInitialized("extract")]
  ELSE IF ~cached.set THEN [st |-> st, ret |-> Err("CacheNotReady", "extract")]
  ELSE ExtractStories(entries, cached, st, includeDocsOnly)

\* The effect of a synchronous call that ran storyFromCSFFile: r = [st, ret].
Returns(op, r) ==
  /\ storyCache' = r.st.sc
  /\ args' = r.st.args
  /\ hooks' = r.st.hooks
  /\ lastCall' = [op |-> op, ret |-> r.ret]
  /\ UNCHANGED << storyIndex, importFn, initialized, projectAnnotations, globals,
                  cachedCSFFiles, csfCache, processCount, tasks >>

\* The module records a caller can hold.
KnownCsfFiles ==
  { csfCache[i].val : i \in 1..Len(csfCache) }
    \cup { cachedCSFFiles.files[i].csfFile : i \in 1..Len(cachedCSFFiles.files) }

CallStoryFromCSFFile(id, csf) ==
  Returns("storyFromCSFFile", StoryFromCSFFile(StoreFields, id, csf, TRUE))

\* cleanupStory(story): this.hooks[story.id].clean() empties the context and
\* leaves it in this.hooks; it throws when the story has no context.
CleanupStory(id) ==
  /\ lastCall' = [op |-> "cleanupStory",
                  ret |-> IF hooks[id] = 0 THEN Err("TypeError", "cleanupStory") ELSE Ok(Void)]
  /\ UNCHANGED << storeVars, tasks >>

\* componentStoriesFromCSFFile({csfFile})
ComponentStoriesFromCSFFile(csf) ==
  LET has(e) == HasStory(csf, e.id)
      es == SelectSeq(storyIndex.entries, has)
      items == [i \in 1..Len(es) |-> [id |-> es[i].id, csf |-> csf, defined |-> TRUE]]
  IN  Returns("componentStoriesFromCSFFile",
              IF ~storyIndex.set
                THEN [st |-> StoreFields, ret |-> NotInitialized("componentStoriesFromCSFFile")]
                ELSE PrepareAll(items, StoreFields, <<>>, FALSE))

CallExtract(includeDocsOnly) ==
  Returns("extract",
          Extract(storyIndex.set, storyIndex.entries, cachedCSFFiles, StoreFields,
                  includeDocsOnly))

\* fromId(storyId)
FromId(id) ==
  LET e == StoryIdToEntry(storyIndex.entries, id)
  IN  Returns("fromId",
        IF ~storyIndex.set THEN [st |-> StoreFields, ret |-> NotInitialized("fromId")]
        ELSE IF ~cachedCSFFiles.set
          THEN [st |-> StoreFields, ret |-> Err("CacheNotReady", "fromId")]
        ELSE IF ~HasEntry(storyIndex.entries, id)
          THEN [st |-> StoreFields, ret |-> Ok(Null)]
        ELSE StoryFromCSFFile(StoreFields, id, FileOf(cachedCSFFiles.files, e.importPath),
                              HasFile(cachedCSFFiles.files, e.importPath)))

\* getSetIndexPayload()
GetSetIndexPayload ==
  Returns("getSetIndexPayload",
        IF ~storyIndex.set THEN [st |-> StoreFields, ret |-> NotInitialized("getSetIndexPayload")]
        ELSE Extract(storyIndex.set, storyIndex.entries, cachedCSFFiles, StoreFields, TRUE))

\* getStoriesJsonData(), through getSetStoriesPayload()
GetStoriesJsonData ==
  Returns("getStoriesJsonData",
        IF ~storyIndex.set THEN [st |-> StoreFields, ret |-> NotInitialized("getStoriesJsonData")]
        ELSE IF globals = "unset"
          THEN [st |-> StoreFields, ret |-> NotInitialized("getSetStoriesPayload")]
        ELSE Extract(storyIndex.set, storyIndex.entries, cachedCSFFiles, StoreFields, TRUE))

\* ------------------------------------------------------------------ specification
Next ==
  \/ \E c \in PAContents : SetProjectAnnotations(c)
  \/ \E index \in Indexes, fn \in Loaders, cache \in BOOLEAN : Initialize(index, fn, cache)
  \/ \E id \in StoryIds : UpdateArgs(id)
  \/ CallCacheAllCSFFiles
  \/ \E b \in BatchSizes : CallLoadAllCSFFiles(b)
  \/ \E id \in CallIds : CallLoadCSFFileByStoryId(id)
  \/ \E id \in CallIds : IssueLoadStory(id)
  \/ \E id \in CallIds : IssueStoryIdToEntry(id)
  \/ \E fn \in Loaders \cup {NoFn}, index \in Indexes \cup {NoIndex} :
       IssueOnStoriesChanged(fn, index)
  \/ \E i \in 1..Len(tasks) : Resume(i)
  \/ \E i \in 1..Len(tasks) : \E j \in 1..Len(tasks[i].slots), o \in Outcomes :
       LoadSettles(i, j, o)
  \/ \E id \in CallIds \cup {"d"} : IssueLoadEntry(id)
  \/ \E i \in 1..Len(tasks) : ResumeLoadEntry(i)
  \/ \E i \in 1..Len(tasks) : LoadEntryContinues(i)
  \/ \E i \in 1..Len(tasks) : \E j \in 1..Len(tasks[i].slots), o \in Outcomes :
       EntryLoadSettles(i, j, o)
  \/ \E id \in CallIds, csf \in KnownCsfFiles : CallStoryFromCSFFile(id, csf)
  \/ \E csf \in KnownCsfFiles \cup {NoCsf} : ComponentStoriesFromCSFFile(csf)
  \/ \E id \in StoryIds : CleanupStory(id)
  \/ \E d \in BOOLEAN : CallExtract(d)
  \/ \E id \in CallIds : FromId(id)
  \/ GetSetIndexPayload
  \/ GetStoriesJsonData

Spec == Init /\ [][Next]_vars

\* ------------------------------------------------------------------ sub-specifications
\* The state space of Spec is too large to enumerate. Each sub-specification
\* keeps the actions as they are and restricts the calls the environment makes,
\* most of them to FewTasks asynchronous calls.

Settle(os) ==
  \E i \in 1..Len(tasks) : \E j \in 1..Len(tasks[i].slots), o \in os : LoadSettles(i, j, o)

ResumeSome == \E i \in 1..Len(tasks) : Resume(i)

\* The first loader is f1: the loaders differ in name only.
InitializeOnce(caches) ==
  \E index \in Indexes, cache \in caches :
    ~initialized /\ Initialize(index, "f1", cache)

\* Batched loading next to index and loader changes.
NextBatch ==
  \/ InitializeOnce({FALSE}) /\ Len(tasks') <= FewTasks
  \/ \E b \in BatchSizes : CallLoadAllCSFFiles(b) /\ Len(tasks') <= FewTasks
  \/ \E fn \in Loaders \cup {NoFn}, index \in Indexes \cup {NoIndex} :
       IssueOnStoriesChanged(fn, index) /\ Len(tasks') <= FewTasks
  \/ ResumeSome
  \/ Settle(Outcomes)

SpecBatch == Init /\ [][NextBatch]_vars

\* Full materializations and single loads.
NextCache ==
  \/ InitializeOnce(BOOLEAN) /\ Len(tasks') <= FewTasks
  \/ CallCacheAllCSFFiles /\ Len(tasks') <= FewTasks
  \/ \E id \in CallIds : CallLoadCSFFileByStoryId(id) /\ Len(tasks') <= FewTasks
  \/ \E fn \in Loaders \cup {NoFn}, index \in Indexes \cup {NoIndex} :
       IssueOnStoriesChanged(fn, index) /\ Len(tasks') <= FewTasks
  \/ ResumeSome
  \/ Settle(Outcomes)

SpecCache == Init /\ [][NextCache]_vars

\* Loads under a loader that initialize() replaces at any time.
NextMemo ==
  \/ \E index \in Indexes, fn \in Loaders : Initialize(index, fn, FALSE)
  \/ CallLoadAllCSFFiles(2) /\ Len(tasks') <= FewTasks
  \/ \E id \in {"a", "c"} : CallLoadCSFFileByStoryId(id) /\ Len(tasks') <= FewTasks
  \/ Settle({"ok", "bad"})

SpecMemo == Init /\ [][NextMemo]_vars

\* The operations that wait at the gate, issued before and after initialize().
NextGate ==
  \/ SetProjectAnnotations("x")
  \/ InitializeOnce({FALSE}) /\ Len(tasks') <= FewTasks
  \/ CallCacheAllCSFFiles /\ Len(tasks') <= FewTasks
  \/ \E id \in CallIds : IssueLoadStory(id) /\ Len(tasks') <= FewTasks
  \/ \E id \in CallIds : IssueStoryIdToEntry(id) /\ Len(tasks') <= FewTasks
  \/ \E fn \in Loaders \cup {NoFn}, index \in Indexes \cup {NoIndex} :
       IssueOnStoriesChanged(fn, index) /\ Len(tasks') <= FewTasks
  \/ ResumeSome
  \/ Settle(Outcomes)

SpecGate == Init /\ [][NextGate]_vars

\* The synchronous operations before and after one materialization.
NextSync ==
  \/ SetProjectAnnotations("x")
  \/ InitializeOnce({TRUE}) /\ Len(tasks') <= FewTasks
  \/ \E b \in BatchSizes : ~initialized /\ CallLoadAllCSFFiles(b) /\ Len(tasks') <= FewTasks
  \/ \E id \in CallIds : ~initialized /\ CallLoadCSFFileByStoryId(id) /\ Len(tasks') <= FewTasks
  \/ Settle({"ok"})
  \/ \E csf \in KnownCsfFiles \cup {NoCsf} : ComponentStoriesFromCSFFile(csf)
  \/ \E d \in BOOLEAN : CallExtract(d)
  \/ \E id \in CallIds : FromId(id)
  \/ GetSetIndexPayload
  \/ GetStoriesJsonData

SpecSync == Init /\ [][NextSync]_vars

\* Preparing stories while the project annotations and the arguments change.
NextPrep ==
  \/ \E c \in PAContents : SetProjectAnnotations(c)
  \/ InitializeOnce({FALSE}) /\ Len(tasks') <= FewTasks
  \/ \E id \in {"a", "c"} : UpdateArgs(id)
  \/ \E id \in {"a", "c"} : IssueLoadStory(id) /\ Len(tasks') <= FewTasks
  \/ ResumeSome
  \/ Settle({"ok"})
  \/ \E id \in CallIds, csf \in KnownCsfFiles : CallStoryFromCSFFile(id, csf)

SpecPrep == Init /\ [][NextPrep]_vars

\* initialize() called again and again, next to the gate's waiters.
NextReady ==
  \/ SetProjectAnnotations("x")
  \/ \E index \in Indexes, cache \in BOOLEAN :
       Initialize(index, "f1", cache) /\ Len(tasks') <= FewTasks
  \/ CallCacheAllCSFFiles /\ Len(tasks') <= FewTasks
  \/ \E index \in Indexes \cup {NoIndex} :
       IssueOnStoriesChanged(NoFn, index) /\ Len(tasks') <= FewTasks
  \/ ResumeSome
  \/ Settle({"ok", "rej"})

SpecReady == Init /\ [][NextReady]_vars

\* loadEntry of story and docs entries while the index is replaced.
NextEntry ==
  \/ ~initialized /\ Initialize(IndexDocs, "f1", FALSE)
  \/ \E id \in {"a", "d", "z"} : IssueLoadEntry(id) /\ Len(tasks') <= FewTasks
  \/ IssueOnStoriesChanged(NoFn, IndexB) /\ Len(tasks') <= FewTasks
  \/ ResumeSome
  \/ \E i \in 1..Len(tasks) : ResumeLoadEntry(i)
  \/ \E i \in 1..Len(tasks) : LoadEntryContinues(i)
  \/ \E i \in 1..Len(tasks) : \E j \in 1..Len(tasks[i].slots), o \in Outcomes :
       EntryLoadSettles(i, j, o)

SpecEntry == Init /\ [][NextEntry]_vars

\* loadAllCSFFiles with batches wide enough for loads of different import paths
\* to complete in any order.
NextOrder ==
  \/ InitializeOnce({FALSE}) /\ Len(tasks') <= FewTasks
  \/ \E b \in {2, 3} : CallLoadAllCSFFiles(b) /\ Len(tasks') <= FewTasks
  \/ \E index \in Indexes : IssueOnStoriesChanged(NoFn, index) /\ Len(tasks') <= FewTasks
  \/ ResumeSome
  \/ Settle({"ok"})

SpecOrder == Init /\ [][NextOrder]_vars

\* A story moves to another module while loadAllCSFFiles is between batches.
NextRace ==
  \/ ~initialized /\ Initialize(IndexA, "f1", FALSE)
  \/ \E b \in BatchSizes : CallLoadAllCSFFiles(b) /\ Len(tasks') <= FewTasks
  \/ \E fn \in Loaders \cup {NoFn} :
       IssueOnStoriesChanged(fn, IndexMoved) /\ Len(tasks') <= FewTasks
  \/ ResumeSome
  \/ Settle({"ok"})

SpecRace == Init /\ [][NextRace]_vars

\* The continuations of awaits on the resolved gate run in the order of the calls.
ResumeInOrder ==
  \E i \in 1..Len(tasks) : (\A j \in 1..(i - 1) : tasks[j].pc # "gate") /\ Resume(i)

\* A materialization by initialize() and, once it has completed,
\* re-materializations by onStoriesChanged calls that overlap.
NextOverlap ==
  \/ InitializeOnce({TRUE})
  \/ \E fn \in Loaders \cup {NoFn}, index \in Indexes \cup {NoIndex} :
       cachedCSFFiles.set /\ IssueOnStoriesChanged(fn, index)
  \/ ResumeInOrder
  \/ Settle({"ok"})

SpecOverlap == Init /\ [][NextOverlap]_vars

\* The index grows by a module while the cache is materialized.
NextStale ==
  \/ SetProjectAnnotations("x")
  \/ ~initialized /\ Initialize(IndexSmall, "f1", TRUE)
  \/ IssueOnStoriesChanged(NoFn, IndexA) /\ Len(tasks') <= FewTasks
  \/ ResumeSome
  \/ Settle({"ok", "rej"})
  \/ CallExtract(TRUE)
  \/ FromId("c")

SpecStale == Init /\ [][NextStale]_vars

\* Stories prepared again and cleaned up while annotations and index change.
NextHooks ==
  \/ \E c \in PAContents : SetProjectAnnotations(c)
  \/ InitializeOnce({FALSE})
  \/ IssueLoadStory("a") /\ Len(tasks') <= FewTasks
  \/ \E index \in Indexes : IssueOnStoriesChanged(NoFn, index) /\ Len(tasks') <= FewTasks
  \/ ResumeSome
  \/ Settle({"ok"})
  \/ \E id \in {"a", "c"}, csf \in KnownCsfFiles : CallStoryFromCSFFile(id, csf)
  \/ \E id \in {"a", "c"} : CleanupStory(id)

SpecHooks == Init /\ [][NextHooks]_vars

\* ------------------------------------------------------------------ claims
BatchOps == {"loadAllCSFFiles"} \cup CacheOps

SlotsOfBatch(t, n) == { j \in 1..Len(t.slots) : t.slots[j].batch = n }

\* C1: while a loadAllCSFFiles({batchSize: b}) call runs, at most b of its loads
\* are in flight, no batch holds more than b loads, and every load of a batch has
\* settled before a load of a later batch is issued.
BatchCeiling ==
  \A i \in 1..Len(tasks) :
    LET t == tasks[i]
    IN  t.op \in BatchOps /\ t.batchSize >= 1 =>
          /\ InFlight(t) <= t.batchSize
          /\ \A n \in 1..t.batchNo : Cardinality(SlotsOfBatch(t, n)) <= t.batchSize
          /\ \A j, k \in 1..Len(t.slots) :
               t.slots[j].batch < t.slots[k].batch => t.slots[j].st # "pending"

\* A call with batch size 2 whose first batch has settled and whose second
\* batch is in flight.
BatchCeilingWitness ==
  \E i \in 1..Len(tasks) :
    /\ tasks[i].op = "loadAllCSFFiles"
    /\ tasks[i].batchSize = 2
    /\ tasks[i].batchNo = 2
    /\ Cardinality(SlotsOfBatch(tasks[i], 1)) = 2
    /\ InFlight(tasks[i]) = 1

HasFailed(t) == \E j \in 1..Len(t.slots) : t.slots[j].st = "failed"

LoadsEachPathOnce ==
  \A i \in 1..Len(tasks) :
    LET t == tasks[i]
    IN  t.op \in BatchOps =>
          \A j, k \in 1..Len(t.slots) :
            j # k => t.slots[j].importPath # t.slots[k].importPath

\* C4: onStoriesChanged acts only once the gate is resolved. With cachedCSFFiles
\* set it always starts a materialization over the whole index, supplied
\* arguments or not, and the mapping that materialization produces becomes
\* cachedCSFFiles; with cachedCSFFiles unset it issues no load and leaves
\* cachedCSFFiles unset.
ChangeRematerializes ==
  [][\A i \in 1..Len(tasks) :
       LET t == tasks[i]
           t1 == tasks'[i]
       IN  t.op = "onStoriesChanged" =>
             /\ (t.pc = "gate" /\ t1.pc # "gate") =>
                  /\ initialized
                  /\ IF cachedCSFFiles.set
                       THEN /\ t1.pc = "loading"
                            /\ Len(t1.slots) = Len(storyIndex'.entries)
                            /\ \A j \in 1..Len(t1.slots) :
                                 /\ t1.slots[j].storyId = storyIndex'.entries[j].id
                                 /\ t1.slots[j].fn = importFn'
                       ELSE /\ t1.pc = "done"
                            /\ t1.slots = <<>>
                            /\ cachedCSFFiles' = cachedCSFFiles
             /\ (t.pc = "gate" /\ ~initialized) => t1 = t
             /\ (t.pc = "loading" /\ t1.pc = "done" /\ t1.result.kind = "ok") =>
                  /\ cachedCSFFiles'.set
                  /\ cachedCSFFiles'.files = ReduceFiles(t1.slots, <<>>)
                  /\ Len(cachedCSFFiles'.files) >= 1
    ]_vars

\* An onStoriesChanged call without arguments has re-materialized the cache.
ChangeRematerializesWitness ==
  \E i \in 1..Len(tasks) :
    /\ tasks[i].op = "onStoriesChanged"
    /\ tasks[i].newFn = NoFn
    /\ tasks[i].newIndex = NoIndex
    /\ tasks[i].pc = "done"
    /\ tasks[i].result.kind = "ok"
    /\ tasks[i].slots # <<>>
    /\ cachedCSFFiles.set
    /\ cachedCSFFiles.files = tasks[i].result.val

\* C9: a materialization that fails leaves cachedCSFFiles as it was, a call
\* loads no story id twice (no retry), and a load whose loader succeeds yields
\* the module record of its path whatever failed before.
FailedLoadNotCached ==
  [][/\ \A i \in 1..Len(tasks) :
          LET t == tasks[i]
              t1 == tasks'[i]
          IN  /\ (t.op \in CacheOps /\ t.pc # "done" /\ t1.pc = "done"
                    /\ t1.result.kind = "error") => cachedCSFFiles' = cachedCSFFiles
              /\ (t.op \in CacheOps /\ t.pc = "done" /\ t.result.kind = "error") =>
                   (t1.pc = "done" /\ t1.result = t.result /\ Len(t1.slots) = Len(t.slots))
     /\ \A i \in 1..Len(tasks') :
          \A j, k \in 1..Len(tasks'[i].slots) :
            LET sj == tasks'[i].slots[j]
                sk == tasks'[i].slots[k]
            IN  /\ j # k => sj.storyId # sk.storyId
                /\ sj.st = "ok" => /\ sj.csf.importPath = sj.importPath
                                   /\ sj.csf.fn = sj.fn
                                   /\ sj.csf.title = sj.title
                                   /\ sj.csf.gen >= 1
    ]_vars

\* A materialization failed on a path, cachedCSFFiles stayed unset, and a later
\* materialization loaded the same path with the same loader and was stored.
FailedLoadNotCachedWitness ==
  \E i, k \in 1..Len(tasks) :
    /\ i < k
    /\ tasks[i].op \in CacheOps
    /\ tasks[i].pc = "done"
    /\ tasks[i].result.kind = "error"
    /\ tasks[k].op \in CacheOps
    /\ tasks[k].pc = "done"
    /\ tasks[k].result.kind = "ok"
    /\ cachedCSFFiles.set
    /\ cachedCSFFiles.files = tasks[k].result.val
    /\ \E j \in 1..Len(tasks[i].slots), m \in 1..Len(tasks[k].slots) :
         /\ tasks[i].slots[j].st = "failed"
         /\ tasks[k].slots[m].st = "ok"
         /\ tasks[k].slots[m].importPath = tasks[i].slots[j].importPath
         /\ tasks[k].slots[m].fn = tasks[i].slots[j].fn

\* C5 as stated: the module record of a triple is computed at most once.
RecordComputedOnce == \A k \in CsfKeys : processCount[k] <= 1

SlotKey(s) == << s.fn, s.importPath, s.title >>

\* C5 amended: while a triple is in the memo of processCSFFileWithCache its
\* record is not computed again and a load of the triple gets the identical
\* cached record; the memo holds at most CSF_CACHE_SIZE triples, it drops only
\* the least recently used one when a new one comes in, and a dropped triple
\* is computed anew.
CachedRecordReused ==
  [][/\ \A k \in CsfKeys :
          /\ MemoHas(csfCache, k) => processCount'[k] = processCount[k]
          /\ processCount'[k] # processCount[k] =>
               /\ processCount'[k] = processCount[k] + 1
               /\ MemoHas(csfCache', k)
               /\ MemoGet(csfCache', k) = ProcessCSFFile(k, processCount'[k])
          /\ (MemoHas(csfCache, k) /\ ~MemoHas(csfCache', k)) =>
               /\ Len(csfCache) = CSF_CACHE_SIZE
               /\ csfCache[1].key = k
     /\ Len(csfCache') <= CSF_CACHE_SIZE
     /\ \A i \in 1..Len(tasks) :
          \A j \in 1..Len(tasks[i].slots) :
            LET s == tasks[i].slots[j]
                s1 == tasks'[i].slots[j]
            IN  (s.st = "pending" /\ s1.st = "ok" /\ MemoHas(csfCache, SlotKey(s))) =>
                  s1.csf = MemoGet(csfCache, SlotKey(s))
    ]_vars

\* Two loads got the identical record, and the record of an evicted triple
\* was computed a second time.
CachedRecordReusedWitness ==
  /\ \E k \in CsfKeys : processCount[k] = 2
  /\ \E i, k \in 1..Len(tasks) :
       \E j \in 1..Len(tasks[i].slots), m \in 1..Len(tasks[k].slots) :
         /\ << i, j >> # << k, m >>
         /\ tasks[i].slots[j].st = "ok"
         /\ tasks[k].slots[m].st = "ok"
         /\ tasks[i].slots[j].csf = tasks[k].slots[m].csf

IsNotInitialized(r) == r.kind = "error" /\ r.error = "NotInitialized"

\* C3 as stated: an operation that waited at the gate from before initialize()
\* completes without a not-initialized error.
GateOpNeverUninitialized ==
  \A i \in 1..Len(tasks) :
    (tasks[i].op \in GateOps /\ tasks[i].early /\ tasks[i].pc = "done") =>
      ~IsNotInitialized(tasks[i].result)

\* What storyFromCSFFile returns for story id and module record csf under the
\* project annotations pa.
PreparedResult(r, id, csf, pa) ==
  IF pa.id = 0 THEN r = NotInitialized("storyFromCSFFile")
  ELSE IF ~HasStory(csf, id) THEN r = Err("DidntFind", "storyFromCSFFile")
  ELSE /\ r.kind = "ok"
       /\ r.val.id = id
       /\ r.val.csf = csf
       /\ r.val.paId = pa.id
       /\ r.val.pa = pa.content

\* The result a gate operation completes with in a step, written on the state
\* the step starts from; the same for a call issued before and after initialize().
CompletesAsIssuedAfter(t, t1) ==
  /\ t1.result.kind = "error" =>
       /\ t1.result.error # "TypeError"
       /\ IsNotInitialized(t1.result) => t1.result.by = "storyFromCSFFile"
  /\ t.op = "storyIdToEntry" =>
       t1.result = IF HasEntry(storyIndex.entries, t.storyId)
                     THEN Ok(StoryIdToEntry(storyIndex.entries, t.storyId))
                     ELSE Err("NotFound", "storyIdToEntry")
  /\ (t.op = "loadStory" /\ t.pc = "gate") =>
       /\ ~HasEntry(storyIndex.entries, t.storyId)
       /\ t1.result = Err("NotFound", "loadCSFFileByStoryId")
  /\ (t.op = "loadStory" /\ t.pc = "loading") =>
       \/ /\ t1.slots[1].st = "failed"
          /\ t1.result.kind = "error"
          /\ t1.result.error \in {"LoadRejected", "Malformed"}
       \/ /\ t1.slots[1].st = "ok"
          /\ PreparedResult(t1.result, t.storyId, t1.slots[1].csf, projectAnnotations)
  /\ (t.op = "onStoriesChanged" /\ t.pc = "gate") =>
       /\ ~cachedCSFFiles.set
       /\ t1.result.kind = "ok"
  /\ (t.op \in {"onStoriesChanged", "cacheAllCSFFiles"} /\ t1.result.kind = "ok" /\ t1.caching) =>
       cachedCSFFiles' = [set |-> TRUE, files |-> ReduceFiles(t1.slots, <<>>)]

\* C3 amended: an operation that awaits the gate stays suspended, without a
\* result and without a load, while the store is uninitialized; after
\* initialize() it completes as a call issued after initialize() does: never
\* with the not-initialized error of the index and loader checks, and loadStory
\* with the one of storyFromCSFFile exactly when no project annotations are set.
GateHolds ==
  [][\A i \in 1..Len(tasks') :
       LET t1 == tasks'[i]
       IN  t1.op \in GateOps =>
             /\ ~initialized' => (t1.pc = "gate" /\ t1.result = Pending /\ t1.slots = <<>>)
             /\ (i <= Len(tasks) /\ tasks[i].pc # "done" /\ t1.pc = "done") =>
                  /\ initialized
                  /\ CompletesAsIssuedAfter(tasks[i], t1)
             /\ (i <= Len(tasks) /\ tasks[i].pc = "gate" /\ t1.pc # "gate"
                   /\ t1.op = "onStoriesChanged") =>
                  /\ importFn' = IF t1.newFn # NoFn THEN t1.newFn ELSE importFn
                  /\ storyIndex'.entries =
                       IF t1.newIndex # NoIndex THEN t1.newIndex ELSE storyIndex.entries
    ]_vars

\* A loadStory issued before initialize() and one issued after it have both
\* returned the same prepared story.
GateHoldsWitness ==
  \E i, k \in 1..Len(tasks) :
    /\ tasks[i].op = "loadStory"
    /\ tasks[k].op = "loadStory"
    /\ tasks[i].early
    /\ ~tasks[k].early
    /\ tasks[i].storyId = tasks[k].storyId
    /\ tasks[i].pc = "done"
    /\ tasks[k].pc = "done"
    /\ tasks[i].result.kind = "ok"
    /\ tasks[i].result = tasks[k].result

\* The call threw the not-initialized error of op and did nothing else.
FailsUninitialized(op) ==
  /\ lastCall' = [op |-> op, ret |-> NotInitialized(op)]
  /\ tasks' = tasks
  /\ UNCHANGED storeVars

\* C10: before initialize() has set the index, each non-suspending operation
\* throws its not-initialized error at once: no call is left suspended, no load
\* is issued and the store stays as it is.
UninitializedFailsFast ==
  [][~storyIndex.set =>
       /\ (\E b \in BatchSizes : CallLoadAllCSFFiles(b)) =>
            FailsUninitialized("loadAllCSFFiles")
       /\ (\E id \in CallIds : CallLoadCSFFileByStoryId(id)) =>
            FailsUninitialized("loadCSFFileByStoryId")
       /\ (\E csf \in KnownCsfFiles \cup {NoCsf} : ComponentStoriesFromCSFFile(csf)) =>
            FailsUninitialized("componentStoriesFromCSFFile")
       /\ (\E d \in BOOLEAN : CallExtract(d)) => FailsUninitialized("extract")
       /\ (\E id \in CallIds : FromId(id)) => FailsUninitialized("fromId")
       /\ GetSetIndexPayload => FailsUninitialized("getSetIndexPayload")
       /\ GetStoriesJsonData => FailsUninitialized("getStoriesJsonData")
    ]_vars

\* extract() has thrown its not-initialized error on a store without an index.
UninitializedFailsFastWitness ==
  /\ ~storyIndex.set
  /\ importFn = NoFn
  /\ tasks = <<>>
  /\ lastCall = [op |-> "extract", ret |-> NotInitialized("extract")]

\* C7: every prepared story that storyFromCSFFile returns, called directly or
\* at the end of loadStory, is computed from the project annotations that are
\* current at the call, never from replaced ones.
PreparedFromCurrentProject ==
  [][/\ (lastCall'.op = "storyFromCSFFile" /\ lastCall'.ret.kind = "ok") =>
          /\ lastCall'.ret.val.paId = projectAnnotations'.id
          /\ lastCall'.ret.val.pa = projectAnnotations'.content
     /\ \A i \in 1..Len(tasks) :
          (tasks[i].op = "loadStory" /\ tasks[i].pc # "done" /\ tasks'[i].pc = "done"
             /\ tasks'[i].result.kind = "ok") =>
            /\ tasks'[i].result.val.paId = projectAnnotations.id
            /\ tasks'[i].result.val.pa = projectAnnotations.content
    ]_vars

\* storyFromCSFFile has returned a story of the second project annotations
\* while the memo still holds the same story prepared under the first.
PreparedFromCurrentProjectWitness ==
  /\ projectAnnotations.id = 2
  /\ lastCall.op = "storyFromCSFFile"
  /\ lastCall.ret.kind = "ok"
  /\ lastCall.ret.val.paId = 2
  /\ \E n \in 1..Len(storyCache) :
       /\ storyCache[n].val.id = lastCall.ret.val.id
       /\ storyCache[n].val.csf = lastCall.ret.val.csf
       /\ storyCache[n].val.paId = 1
       /\ storyCache[n].val.pa # lastCall.ret.val.pa

\* C8: arguments that were updated stay updated: preparing the story again
\* with storyFromCSFFile does not seed them anew.
PreparingKeepsArgs ==
  [][\A id \in StoryIds : args[id] = "upd" => args'[id] = "upd"]_vars

\* Story a was prepared by loadStory, its arguments were updated, and
\* storyFromCSFFile has prepared it again from the same module record.
PreparingKeepsArgsWitness ==
  /\ args["a"] = "upd"
  /\ lastCall.op = "storyFromCSFFile"
  /\ lastCall.ret.kind = "ok"
  /\ lastCall.ret.val.id = "a"
  /\ \E i \in 1..Len(tasks) :
       /\ tasks[i].op = "loadStory"
       /\ tasks[i].pc = "done"
       /\ tasks[i].result.kind = "ok"
       /\ tasks[i].result.val.id = "a"
       /\ tasks[i].result.val.csf = lastCall.ret.val.csf

CacheNotReady(by) == Err("CacheNotReady", by)

\* C11: extract() on a store that has its index but no materialized cache
\* throws the cache-not-ready error, which is not the not-initialized error, and
\* changes nothing; extract() returns a result only when a materialization has
\* completed and set cachedCSFFiles.
ExtractNeedsCache ==
  [][(lastCall'.op = "extract" /\ \E d \in BOOLEAN : CallExtract(d)) =>
       /\ (storyIndex.set /\ ~cachedCSFFiles.set) =>
            /\ lastCall' = [op |-> "extract", ret |-> CacheNotReady("extract")]
            /\ lastCall'.ret # NotInitialized("extract")
            /\ UNCHANGED storeVars
       /\ lastCall'.ret.kind = "ok" =>
            /\ cachedCSFFiles.set
            /\ \E i \in 1..Len(tasks) :
                 /\ tasks[i].caching
                 /\ tasks[i].pc = "done"
                 /\ tasks[i].result.kind = "ok"
    ]_vars

\* extract() has thrown the cache-not-ready error on an initialized store whose
\* materialization is still loading.
ExtractNeedsCacheWitness ==
  /\ initialized
  /\ storyIndex.set
  /\ ~cachedCSFFiles.set
  /\ \E i \in 1..Len(tasks) : tasks[i].caching /\ tasks[i].pc = "loading"
  /\ lastCall = [op |-> "extract", ret |-> CacheNotReady("extract")]

\* C12: the gate is resolved by initialize() and never closes again: no step
\* takes the store from initialized back to uninitialized, only initialize()
\* resolves the gate, a call that has passed the gate never waits at it again,
\* and once the gate is resolved no cacheAllCSFFiles call is left waiting.
GateResolvedOnce ==
  [][/\ initialized => initialized'
     /\ (~initialized /\ initialized') => lastCall'.op = "initialize"
     /\ \A i \in 1..Len(tasks) : tasks[i].pc # "gate" => tasks'[i].pc # "gate"
     /\ initialized' =>
          \A i \in 1..Len(tasks') :
            tasks'[i].op = "cacheAllCSFFiles" => tasks'[i].pc # "gate"
    ]_vars

\* initialize() was called again after an onStoriesChanged call had replaced
\* the index and after a load had failed, and the gate is still resolved.
GateResolvedOnceWitness ==
  /\ initialized
  /\ lastCall.op = "initialize"
  /\ storyIndex.entries = IndexA
  /\ \E i \in 1..Len(tasks) :
       /\ tasks[i].op = "onStoriesChanged"
       /\ tasks[i].newIndex = IndexB
       /\ tasks[i].pc = "done"
  /\ \E i \in 1..Len(tasks) :
       /\ tasks[i].op # "onStoriesChanged"
       /\ tasks[i].pc = "done"
       /\ tasks[i].result.kind = "error"
       /\ tasks[i].result.error = "LoadRejected"

\* C13: loadEntry issues all its loads in one step, before any of them has
\* settled: the load of the entry's own module and, for a docs entry with N
\* storiesImports, the N loads of those modules; a story entry gets the one load
\* of its own module. No load is issued at any other moment of the call.
LoadEntryConcurrent ==
  [][\A i \in 1..Len(tasks) :
       LET t == tasks[i]
           t1 == tasks'[i]
       IN  t.op = "loadEntry" =>
             /\ (t.pc = "entry" /\ t1.pc = "loading") =>
                  LET e == t.result.val
                      n == IF e.type = "docs" THEN Len(e.storiesImports) ELSE 0
                  IN  /\ Len(t1.slots) = n + 1
                      /\ \A j \in 1..(n + 1) : t1.slots[j].st = "pending"
                      /\ t1.slots[1].importPath = e.importPath
                      /\ \A k \in 1..n : t1.slots[k + 1].importPath = e.storiesImports[k]
             /\ t.pc # "entry" => Len(t1.slots) = Len(t.slots)
             /\ t.pc \in {"gate", "entry"} => t.slots = <<>>
    ]_vars

\* loadEntry of the docs entry d, which references two story modules, has its
\* three loads in flight, more than any batch size a caller passes.
LoadEntryConcurrentWitness ==
  \E i \in 1..Len(tasks) :
    /\ tasks[i].op = "loadEntry"
    /\ tasks[i].storyId = "d"
    /\ tasks[i].pc = "loading"
    /\ Len(tasks[i].slots) = 3
    /\ InFlight(tasks[i]) = 3
    /\ \A b \in BatchSizes : InFlight(tasks[i]) > b

RECURSIVE FirstSeen(_, _)
\* The elements of seq in the order of their first occurrence.
FirstSeen(seq, acc) ==
  IF seq = <<>> THEN acc
  ELSE FirstSeen(Tail(seq),
                 IF \E k \in 1..Len(acc) : acc[k] = Head(seq) THEN acc
                 ELSE Append(acc, Head(seq)))

\* The import paths a loadAllCSFFiles call files its loads under: those issued
\* and those still to be issued.
PathsOfCall(t) ==
  [j \in 1..Len(t.slots) |-> t.slots[j].key]
    \o [k \in 1..Len(t.remaining) |-> t.remaining[k].importPath]

\* C14: the keys of the mapping loadAllCSFFiles returns are the import paths of
\* the index as it was at the call, each at the place of its first occurrence,
\* whatever the order in which the loads completed.
KeyOrderIsIndexOrder ==
  [][\A i \in 1..Len(tasks') :
       LET t1 == tasks'[i]
           isNew == i > Len(tasks)
       IN  (t1.op \in BatchOps /\ t1.result.kind # "error") =>
             /\ (isNew /\ t1.pc # "gate") =>
                  PathsOfCall(t1) = [k \in 1..Len(storyIndex.entries) |->
                                       storyIndex.entries[k].importPath]
             /\ (~isNew /\ tasks[i].pc = "loading") => PathsOfCall(t1) = PathsOfCall(tasks[i])
             /\ (t1.pc = "done" /\ t1.op = "loadAllCSFFiles") =>
                  [k \in 1..Len(t1.result.val) |-> t1.result.val[k].importPath]
                    = FirstSeen(PathsOfCall(t1), <<>>)
    ]_vars

\* loadAllCSFFiles has returned the keys p1, p2 of its index although the load
\* of p2 completed before the loads of p1.
KeyOrderIsIndexOrderWitness ==
  /\ Len(tasks) = 1
  /\ tasks[1].op = "loadAllCSFFiles"
  /\ tasks[1].pc = "done"
  /\ tasks[1].result.kind = "ok"
  /\ [k \in 1..Len(tasks[1].result.val) |-> tasks[1].result.val[k].importPath] = << "p1", "p2" >>
  /\ Len(csfCache) = 2
  /\ csfCache[1].val.importPath = "p2"
  /\ csfCache[2].val.importPath = "p1"

\* C15: the result of extract({includeDocsOnly}) holds an index entry exactly
\* when the entry is not of type docs and, unless includeDocsOnly is set, its
\* prepared story is not flagged docs-only.
DocsOnlyFiltered ==
  [][(lastCall'.op = "extract" /\ lastCall'.ret.kind = "ok") =>
       \A d \in BOOLEAN :
         CallExtract(d) =>
           \A k \in 1..Len(storyIndex.entries) :
             LET e == storyIndex.entries[k]
                 listed == \E n \in 1..Len(lastCall'.ret.val) : lastCall'.ret.val[n] = e.id
             IN  listed <=> (e.type # "docs" /\ (d \/ ~DocsOnly(e.id)))
    ]_vars

\* extract() has left the docs-only story b of the index out of its result.
DocsOnlyFilteredWitness ==
  /\ storyIndex.entries = IndexA
  /\ DocsOnly("b")
  /\ lastCall.op = "extract"
  /\ lastCall.ret.kind = "ok"
  /\ lastCall.ret.val = << "a", "c" >>

\* C16: whenever the gate is resolved the index and the loader are set, and no
\* operation that resumed from the gate has met an unset index.
GateImpliesIndexAndLoader ==
  /\ initialized => (storyIndex.set /\ importFn # NoFn)
  /\ \A i \in 1..Len(tasks) :
       (tasks[i].op \in GateOps /\ tasks[i].pc # "gate") =>
         /\ storyIndex.set
         /\ importFn # NoFn
         /\ tasks[i].result # Err("TypeError", tasks[i].op)
         /\ tasks[i].result # NotInitialized("loadCSFFileByStoryId")
         /\ tasks[i].result # NotInitialized("loadAllCSFFiles")

\* An onStoriesChanged call without a loader and a storyIdToEntry call, both
\* issued before initialize(), have resumed from the gate and completed.
GateImpliesIndexAndLoaderWitness ==
  /\ initialized
  /\ \E i \in 1..Len(tasks) :
       /\ tasks[i].op = "onStoriesChanged"
       /\ tasks[i].early
       /\ tasks[i].newFn = NoFn
       /\ tasks[i].newIndex # NoIndex
       /\ tasks[i].pc = "done"
  /\ \E i \in 1..Len(tasks) :
       /\ tasks[i].op = "storyIdToEntry"
       /\ tasks[i].early
       /\ tasks[i].pc = "done"
       /\ tasks[i].result.kind = "ok"

\* files[k] holds under its key the record of the module of that import path
FiledUnderOwnPath(files) ==
  \A k \in 1..Len(files) : files[k].csfFile.importPath = files[k].importPath

\* C17: every module record in cachedCSFFiles and in a mapping returned by
\* loadAllCSFFiles is filed under the import path it was loaded from.
RecordsFiledUnderOwnPath ==
  /\ FiledUnderOwnPath(cachedCSFFiles.files)
  /\ \A i \in 1..Len(tasks) :
       (tasks[i].op \in BatchOps /\ tasks[i].pc = "done" /\ tasks[i].result.kind = "ok") =>
         FiledUnderOwnPath(tasks[i].result.val)

\* The materializations of the store, in the order they were started.
Materializations == { i \in 1..Len(tasks) : tasks[i].caching }

\* C18: once every materialization has completed, cachedCSFFiles holds the
\* mapping of the one that was started last.
LatestMaterializationWins ==
  (/\ Materializations # {}
   /\ \A i \in Materializations : tasks[i].pc = "done" /\ tasks[i].result.kind = "ok")
    => LET last == CHOOSE i \in Materializations : \A j \in Materializations : j <= i
       IN  /\ cachedCSFFiles.set
           /\ cachedCSFFiles.files = tasks[last].result.val

\* C19: whenever cachedCSFFiles is set it holds a module record for the import
\* path of every story entry of the index, and neither extract() nor fromId()
\* has handed storyFromCSFFile a missing record.
CacheCoversIndex ==
  /\ cachedCSFFiles.set =>
       \A k \in 1..Len(storyIndex.entries) :
         IsStoryEntry(storyIndex.entries[k]) =>
           HasFile(cachedCSFFiles.files, storyIndex.entries[k].importPath)
  /\ lastCall.op \in {"extract", "fromId"} =>
       lastCall.ret # Err("TypeError", "storyFromCSFFile")

\* C20: a story that storyFromCSFFile has returned has a hooks context, and a
\* hooks context once made stays the context of its story in every later step.
HooksContextKept ==
  [][/\ \A id \in StoryIds : hooks[id] # 0 => hooks'[id] = hooks[id]
     /\ (lastCall'.op = "storyFromCSFFile" /\ lastCall'.ret.kind = "ok") =>
          hooks'[lastCall'.ret.val.id] # 0
     /\ \A i \in 1..Len(tasks) :
          (tasks[i].op = "loadStory" /\ tasks[i].pc # "done" /\ tasks'[i].pc = "done"
             /\ tasks'[i].result.kind = "ok") =>
            hooks'[tasks'[i].result.val.id] # 0
    ]_vars

\* Story a still has its first hooks context after it was prepared under two
\* project annotations, the index was replaced and cleanupStory was called.
HooksContextKeptWitness ==
  /\ hooks["a"] = 1
  /\ lastCall = [op |-> "cleanupStory", ret |-> Ok(Void)]
  /\ projectAnnotations.id = 2
  /\ \E m, n \in 1..Len(storyCache) :
       /\ storyCache[m].val.id = "a"
       /\ storyCache[n].val.id = "a"
       /\ storyCache[m].val.paId = 1
       /\ storyCache[n].val.paId = 2
  /\ \E i \in 1..Len(tasks) :
       /\ tasks[i].op = "onStoriesChanged"
       /\ tasks[i].pc = "done"
       /\ storyIndex.entries = tasks[i].newIndex

====
